---- MODULE Spec2Model ----
(***************************************************************************)
(* Model of tiny.py, the serial wrapper of the tiny-v1 relay box.          *)
(*                                                                         *)
(* The transport (serial.Serial) is a script of read results: rx holds,    *)
(* in order, what the next calls of port.read(5) return (0..5 bytes each); *)
(* a read on an empty script times out with zero bytes.  The device may    *)
(* append to the script at any time.  Every transport call of the session  *)
(* is one step.                                                            *)
(*                                                                         *)
(* Integers wider than 31 bits are pairs <<q, r>> standing for             *)
(* q * 65536 + r with r in 0..65535; an unsigned 32-bit value has q in     *)
(* 0..65535.  Text is a sequence of one-character strings.  A float        *)
(* quotient a / b is the tuple <<"div", a, b>>.                            *)
(***************************************************************************)
EXTENDS Integers, Sequences, FiniteSets, TLC

\* ------------------------------------------------------------ constants
TINYRATE == 156250
_CLOCK == 16
_INPUT1 == 32
_INPUT2 == 64
_INPUT3 == 128
_OUTPUT == 4
\* frame length requested by every read, self._read(5)
FRAMELEN == 5
\* _waitFor gives up when count > 20
WAITLIMIT == 20
\* align gives up when count > 5
ALIGNLIMIT == 5

\* ------------------------------------------------------------ bounds
\* read results the transport may hold at once
MaxPending == 2

\* ------------------------------------------------------------ bit operations
RECURSIVE BitAnd(_, _)
BitAnd(a, b) ==
    IF a = 0 \/ b = 0 THEN 0
    ELSE (a % 2) * (b % 2) + 2 * BitAnd(a \div 2, b \div 2)

RECURSIVE BitOr(_, _)
BitOr(a, b) ==
    IF a = 0 THEN b
    ELSE IF b = 0 THEN a
    ELSE (IF a % 2 = 1 \/ b % 2 = 1 THEN 1 ELSE 0) + 2 * BitOr(a \div 2, b \div 2)

\* x & m for a Python int x of either sign and a mask m in 0..255
\* (two's complement: only the low 8 bits of x take part)
AndMask(x, m) == BitAnd(x % 256, m)

\* ------------------------------------------------------------ struct
\* struct.pack('>L', v): the 4 big-endian bytes of v, for v in 0..2^32-1
PackL(v) == << v[1] \div 256, v[1] % 256, v[2] \div 256, v[2] % 256 >>

\* struct.unpack('>L', b)[0]
UnpackL(b) == << b[1] * 256 + b[2], b[3] * 256 + b[4] >>

\* bytearray(5)
ZeroFrame == << 0, 0, 0, 0, 0 >>

\* struct.pack_into('>L', cmd, 1, v)
PackInto1(cmd, v) == << cmd[1] >> \o PackL(v)

\* truth value of a Python int
Truthy(v) == v # << 0, 0 >>

\* ------------------------------------------------------------ text
HexUpper == << "0", "1", "2", "3", "4", "5", "6", "7",
               "8", "9", "A", "B", "C", "D", "E", "F" >>

HexLower == << "0", "1", "2", "3", "4", "5", "6", "7",
               "8", "9", "a", "b", "c", "d", "e", "f" >>

\* '%02X' % n, for n in 0..255
Fmt02X(n) == << HexUpper[(n \div 16) + 1], HexUpper[(n % 16) + 1] >>

\* bytes.hex()
RECURSIVE BytesHex(_)
BytesHex(b) ==
    IF b = << >> THEN << >>
    ELSE << HexLower[(Head(b) \div 16) + 1], HexLower[(Head(b) % 16) + 1] >>
         \o BytesHex(Tail(b))

\* ------------------------------------------------------------ encoding
\* the buffer resetClock writes
ResetClockCmd(ack) == PackInto1(ZeroFrame, ack)

\* the buffer setPorts writes
SetPortsCmd(pa, pb) ==
    [ZeroFrame EXCEPT ![1] = 4,
                      ![2] = AndMask(pb, 255),
                      ![4] = BitOr(128, AndMask(pa, 31))]

\* the buffer setPortB writes
SetPortBCmd(pb) ==
    [ZeroFrame EXCEPT ![1] = 4,
                      ![2] = AndMask(pb, 255)]

\* -- Python floats: IEEE 754 binary64, every operation rounded to nearest,
\* ties to even. Naturals wider than 31 bits are sequences of bits, lowest
\* bit first; a finite float is [m, e], the value m * 2^e.
\* single precision in place of double
MantBits_Single == 53 - 29

\* bits of the significand of a float
MantBits == 53

\* the lowest k bits of the natural n, k <= 31
NatBits(n, k) == [i \in 1..k |-> (n \div (2 ^ (i - 1))) % 2]

\* s zero bits
Zeros(s) == [i \in 1..s |-> 0]

\* b without its leading zero bits
Trim(b) ==
    LET ones == { i \in 1..Len(b) : b[i] = 1 }
    IN  IF ones = { } THEN << >>
        ELSE SubSeq(b, 1, CHOOSE i \in ones : \A j \in ones : j <= i)

\* the natural the bits b stand for, when it fits a machine word
RECURSIVE BitsVal(_)
BitsVal(b) == IF b = << >> THEN 0 ELSE Head(b) + 2 * BitsVal(Tail(b))

\* the bits of v = << q, r >>, the natural q * 65536 + r
WideBits(v) == Trim(NatBits(v[2], 16) \o NatBits(v[1], 31))

\* the pair << q, r >> of the natural with bits b
BitsWide(b) ==
    LET p == b \o Zeros(16)
    IN  << BitsVal(SubSeq(p, 17, Len(p))), BitsVal(SubSeq(p, 1, 16)) >>

\* -v for the pair v
NegWide(v) ==
    IF v[2] = 0 THEN << 0 - v[1], 0 >> ELSE << 0 - v[1] - 1, 65536 - v[2] >>

\* b * 2^s
ShiftLeft(b, s) == Zeros(s) \o b

\* b + 1
Inc(b) ==
    LET zeros == { i \in 1..Len(b) : b[i] = 0 }
        j     == IF zeros = { } THEN Len(b) + 1
                 ELSE CHOOSE i \in zeros : \A k \in zeros : i <= k
    IN  [i \in 1..(IF j > Len(b) THEN j ELSE Len(b)) |->
            IF i < j THEN 0 ELSE IF i = j THEN 1 ELSE b[i]]

\* how many bits of b one step of the long operations takes: up to 10
Chunk(b) == IF Len(b) < 10 THEN Len(b) ELSE 10

\* b * k + c, for k below 2^20 and c below 2^21
RECURSIVE MulSmall(_, _, _)
MulSmall(b, k, c) ==
    IF b = << >> THEN Trim(NatBits(c, 31))
    ELSE LET n == Chunk(b)
             v == BitsVal(SubSeq(b, 1, n)) * k + c
         IN  NatBits(v % (2 ^ n), n)
             \o MulSmall(SubSeq(b, n + 1, Len(b)), k, v \div (2 ^ n))

\* quotient and remainder of b by d, for d below 2^20
RECURSIVE LongDiv(_, _)
LongDiv(b, d) ==
    IF b = << >> THEN [q |-> << >>, r |-> 0]
    ELSE LET n   == Chunk(b)
             hi  == LongDiv(SubSeq(b, n + 1, Len(b)), d)
             cur == hi.r * (2 ^ n) + BitsVal(SubSeq(b, 1, n))
         IN  [q |-> NatBits(cur \div d, n) \o hi.q, r |-> cur % d]

\* (b + x) / 2^g rounded to the nearest natural, ties to even, for g >= 1,
\* where 0 <= x < 1 and sticky says whether x > 0
RoundShift(b, g, sticky) ==
    LET p     == b \o Zeros(g)
        high  == Trim(SubSeq(p, g + 1, Len(p)))
        guard == p[g]
        rest  == sticky \/ \E i \in 1..(g - 1) : p[i] = 1
        odd   == high # << >> /\ Head(high) = 1
    IN  IF guard = 1 /\ (rest \/ odd) THEN Inc(high) ELSE high

\* the float a / d for the natural a = << q, r >> and 0 < d < 2^20
FloatDiv(a, d) ==
    IF a = << 0, 0 >> THEN [m |-> << >>, e |-> 0]
    ELSE LET s0 == MantBits + 21
             qr == LongDiv(ShiftLeft(WideBits(a), s0), d)
             q  == Trim(qr.q)
             g  == Len(q) - MantBits
         IN  [m |-> RoundShift(q, g, qr.r # 0), e |-> g - s0]

\* the float f * k for the natural 0 < k < 2^20
FloatMul(f, k) ==
    LET p == Trim(MulSmall(f.m, k, 0))
        g == Len(p) - MantBits
    IN  IF g <= 0 THEN [m |-> p, e |-> f.e]
        ELSE [m |-> RoundShift(p, g, FALSE), e |-> f.e + g]

\* round(f) for a float f >= 0: the nearest integer, ties to even
RoundFloat(f) ==
    IF f.e >= 0 THEN ShiftLeft(f.m, f.e) ELSE RoundShift(f.m, 0 - f.e, FALSE)

\* whether round(clock * TINYRATE) raises: round() of an infinity raises
\* OverflowError, of a nan ValueError
ScheduleRaises(clock) ==
    clock.type = "float" /\ clock.kind \in { "inf", "nan" }

\* what schedulePortA gives its caller: None, or the exception of round()
ScheduleResult(clock) ==
    IF ScheduleRaises(clock)
      THEN << "raise", IF clock.kind = "inf" THEN "OverflowError"
                                            ELSE "ValueError" >>
      ELSE << "None" >>

\* int(round(clock * TINYRATE)) for the finite float clock, the quotient
\* num / den with its sign
SecondsToTicks(clock) ==
    LET n == BitsWide(RoundFloat(FloatMul(FloatDiv(clock.num, clock.den),
                                          TINYRATE)))
    IN  IF clock.neg THEN NegWide(n) ELSE n

\* no mask: the clock as it came
Mask32_None(v) == v

\* clock & 0xffffffff
Mask32(v) == << v[1] % 65536, v[2] >>

\* the tick count schedulePortA packs: a float is converted first
ScheduleTicks(clock) ==
    IF clock.type = "float" THEN SecondsToTicks(clock) ELSE clock.val

\* whether schedulePortA reaches its write: isinstance(clock, int) after
\* the float conversion
ScheduleWrites(clock) ==
    clock.type \in {"float", "int"} /\ ~ ScheduleRaises(clock)

\* schedulePortA masking port A to 4 bits
SchedulePortACmd_Mask4(pa, clock) ==
    PackInto1([ZeroFrame EXCEPT ![1] = BitOr(224, AndMask(pa, 15))],
              Mask32(ScheduleTicks(clock)))

\* the buffer schedulePortA writes
SchedulePortACmd(pa, clock) ==
    PackInto1([ZeroFrame EXCEPT ![1] = BitOr(224, AndMask(pa, 31))],
              Mask32(ScheduleTicks(clock)))

\* ------------------------------------------------------------ decoding
\* the classifying conditions with the schedule test on any of the top bits
RuleHolds_AnyTopBit(i, b0) ==
    CASE i = 1 -> BitAnd(b0, 240) = _CLOCK
      [] i = 2 -> BitAnd(b0, 240) = _INPUT1
      [] i = 3 -> BitAnd(b0, 240) = _INPUT2
      [] i = 4 -> BitAnd(b0, 240) = _INPUT3
      [] i = 5 -> b0 = _OUTPUT
      [] i = 6 -> b0 = 0
      [] i = 7 -> BitAnd(b0, 224) # 0

\* the condition of the i-th branch of readMsg's chain on byte 0, alone
RuleHolds(i, b0) ==
    CASE i = 1 -> BitAnd(b0, 240) = _CLOCK
      [] i = 2 -> BitAnd(b0, 240) = _INPUT1
      [] i = 3 -> BitAnd(b0, 240) = _INPUT2
      [] i = 4 -> BitAnd(b0, 240) = _INPUT3
      [] i = 5 -> b0 = _OUTPUT
      [] i = 6 -> b0 = 0
      [] i = 7 -> BitAnd(b0, 224) = 224

\* the message types the i-th branch returns
RuleTypes(i) ==
    CASE i = 1 -> { "clock" }
      [] i \in { 2, 3, 4 } -> { "input" }
      [] i = 5 -> { "setports", "setportb" }
      [] i = 6 -> { "reset" }
      [] i = 7 -> { "schedule" }

\* readMsg taking the message type from the top three bits only
Decode_WrongMask(frame) ==
    LET msgType  == BitAnd(frame[1], 224)
        boxClock == UnpackL(SubSeq(frame, 2, 5))
        boxTime  == << "div", boxClock, TINYRATE >>
    IN  IF msgType = _CLOCK THEN
            << "clock", boxClock, boxTime >>
        ELSE IF msgType = _INPUT1 THEN
            << "input", << "1" >>, boxTime >>
        ELSE IF msgType = _INPUT2 THEN
            << "input", << "2", ":" >> \o Fmt02X(BitAnd(frame[1], 14)), boxTime >>
        ELSE IF msgType = _INPUT3 THEN
            << "input", << "3", ":" >> \o Fmt02X(BitAnd(frame[1], 7)), boxTime >>
        ELSE IF frame[1] = _OUTPUT THEN
            IF BitAnd(frame[4], 128) # 0 THEN
                << "setports", << "P", "A", ":" >> \o Fmt02X(BitAnd(frame[4], 31)),
                               << "P", "B", ":" >> \o Fmt02X(frame[2]) >>
            ELSE
                << "setportb", << "P", "B", ":" >> \o Fmt02X(frame[2]) >>
        ELSE IF frame[1] = 0 THEN
            << "reset", BytesHex(SubSeq(frame, 2, 5)) >>
        ELSE IF BitAnd(frame[1], 224) = 224 THEN
            << "schedule", << "P", "A", ":" >> \o Fmt02X(BitAnd(frame[1], 31)), boxTime >>
        ELSE
            << "unknown", BytesHex(frame) >>

\* readMsg on a full frame: the tuple it returns
Decode(frame) ==
    LET msgType  == BitAnd(frame[1], 240)
        boxClock == UnpackL(SubSeq(frame, 2, 5))
        boxTime  == << "div", boxClock, TINYRATE >>
    IN  IF msgType = _CLOCK THEN
            << "clock", boxClock, boxTime >>
        ELSE IF msgType = _INPUT1 THEN
            << "input", << "1" >>, boxTime >>
        ELSE IF msgType = _INPUT2 THEN
            << "input", << "2", ":" >> \o Fmt02X(BitAnd(frame[1], 14)), boxTime >>
        ELSE IF msgType = _INPUT3 THEN
            << "input", << "3", ":" >> \o Fmt02X(BitAnd(frame[1], 7)), boxTime >>
        ELSE IF frame[1] = _OUTPUT THEN
            IF BitAnd(frame[4], 128) # 0 THEN
                << "setports", << "P", "A", ":" >> \o Fmt02X(BitAnd(frame[4], 31)),
                               << "P", "B", ":" >> \o Fmt02X(frame[2]) >>
            ELSE
                << "setportb", << "P", "B", ":" >> \o Fmt02X(frame[2]) >>
        ELSE IF frame[1] = 0 THEN
            << "reset", BytesHex(SubSeq(frame, 2, 5)) >>
        ELSE IF BitAnd(frame[1], 224) = 224 THEN
            << "schedule", << "P", "A", ":" >> \o Fmt02X(BitAnd(frame[1], 31)), boxTime >>
        ELSE
            << "unknown", BytesHex(frame) >>

\* _read handing a short read to its caller
_read_KeepShort(rcv, count) == rcv

\* _read: what port.read(count) returned, or nothing unless it is complete
_read(rcv, count) == IF Len(rcv) = count THEN rcv ELSE << >>

\* readMsg on what _read returned
ReadMsgResult(frame) ==
    IF frame # << >> /\ Len(frame) = 5 THEN Decode(frame) ELSE << "None" >>

\* ------------------------------------------------------------ session
\* the probe align writes, and the reply it waits for, cmd[1:6]
AlignCmd == << 16, 224, 127, 15, 85, 42 >>

AlignReply == SubSeq(AlignCmd, 2, 6)

\* _waitFor with no limit on the frames it discards
WaitOutcome_NoLimit(m, rcv, cnt) ==
    IF rcv = << >> THEN "False"
    ELSE IF m # << >> /\ m = rcv THEN "True"
    ELSE "again"

\* _waitFor taking the echo of any resetClock for its own
WaitOutcome_AnyAck(m, rcv, cnt) ==
    IF rcv = << >> THEN "False"
    ELSE IF m # << >> /\ (m = rcv \/ (m[1] = 0 /\ rcv[1] = 0)) THEN "True"
    ELSE IF cnt + 1 > WAITLIMIT THEN "False"
    ELSE "again"

\* _waitFor giving up one frame later
WaitOutcome_LateLimit(m, rcv, cnt) ==
    IF rcv = << >> THEN "False"
    ELSE IF m # << >> /\ m = rcv THEN "True"
    ELSE IF cnt + 1 > WAITLIMIT + 1 THEN "False"
    ELSE "again"

\* _waitFor testing its limit before the match, one frame early
WaitOutcome_EarlyLimit(m, rcv, cnt) ==
    IF rcv = << >> THEN "False"
    ELSE IF cnt + 1 >= WAITLIMIT THEN "False"
    ELSE IF m # << >> /\ m = rcv THEN "True"
    ELSE "again"

\* _waitFor counting an empty read as one more discarded frame
WaitOutcome_SkipEmpty(m, rcv, cnt) ==
    IF m # << >> /\ m = rcv THEN "True"
    ELSE IF cnt + 1 > WAITLIMIT THEN "False"
    ELSE "again"

\* one pass of the loop of _waitFor on what _read returned, with the count
\* so far: the wait returns True, returns False, or reads again
WaitOutcome(m, rcv, cnt) ==
    IF rcv = << >> THEN "False"
    ELSE IF m # << >> /\ m = rcv THEN "True"
    ELSE IF cnt + 1 > WAITLIMIT THEN "False"
    ELSE "again"

\* align giving up one try later
AlignEnds_LateLimit(al, cnt) == (cnt + 1 > ALIGNLIMIT + 1) \/ al

\* align after one _waitFor, with the count so far: whether the loop ends
AlignEnds(al, cnt) == (cnt + 1 > ALIGNLIMIT) \/ al

\* resetClock waiting whatever ack is
ResetWaits_Always(ack) == TRUE

\* whether resetClock waits for the acknowledge
ResetWaits(ack) == Truthy(ack)

\* __init__ leaving align to the caller
InitAligns_Skip == FALSE

\* whether __init__ runs align
InitAligns == TRUE

VARIABLES
    pc,           \* the function about to make its next transport call, or "idle"
    op,           \* the operation the caller invoked last
    arg,          \* its arguments
    msg,          \* _waitFor: the expected reply
    count,        \* _waitFor: count
    align_count,  \* align: count
    init_aligned, \* __init__: aligned, as "True" or "False", "unset" before align returns
    rx,           \* the transport: the results of the reads to come
    tx,           \* the transport: the buffer written last
    first_tx,     \* the transport: the buffer written first
    nwrites,      \* writes made by the operation so far
    nreads,       \* reads made by the operation or, in a wait, by the wait so far
    last_read,    \* the transport: what the last read returned, before _read
    ret           \* what the operation returned, << "running" >> until it returns

vars == << pc, op, arg, msg, count, align_count, init_aligned,
           rx, tx, first_tx, nwrites, nreads, last_read, ret >>

NoArg == [none |-> TRUE]

\* frames and fragments the device sends in the session model
Heartbeat == << 16, 0, 1, 0, 2 >>

ResetEcho == << 0, 202, 254, 190, 239 >>

PortsEcho == << 4, 255, 0, 159, 0 >>

ShortRead == << 224, 127 >>

\* the rest of the reply whose first bytes came as ShortRead
ShortTail == << 15, 85, 42 >>

Timeout == << >>

RxChunks == { AlignReply, Heartbeat, ResetEcho, PortsEcho, ShortRead,
              ShortTail, Timeout }

\* arguments the caller passes in the session model
AckValues == { << 0, 0 >>, << 51966, 48879 >> }

PortAValues == { 0, 31, 53 }

PortBValues == { 0, 255, 258 }

ClockValues == { [type |-> "int", val |-> << 1, 2 >>],
                 [type |-> "float", kind |-> "finite", neg |-> FALSE,
                  num |-> << 0, 3 >>, den |-> 2],
                 [type |-> "other"] }

\* serial.Serial.read: the next read result, nothing on timeout
PortRead == IF rx = << >> THEN << >> ELSE Head(rx)

PortRest == IF rx = << >> THEN << >> ELSE Tail(rx)

\* the session reads once from the port
PortReadStep ==
    /\ last_read' = PortRead
    /\ rx' = PortRest
    /\ nreads' = nreads + 1

\* serial.Serial.write
PortWrite(buf) ==
    /\ tx' = buf
    /\ first_tx' = IF first_tx = << >> THEN buf ELSE first_tx
    /\ nwrites' = nwrites + 1

Init ==
    /\ pc = "__init__"
    /\ op = "__init__"
    /\ arg = NoArg
    /\ msg = << >>
    /\ count = 0
    /\ align_count = 0
    /\ init_aligned = "unset"
    /\ rx = << >>
    /\ tx = << >>
    /\ first_tx = << >>
    /\ nwrites = 0
    /\ nreads = 0
    /\ last_read = << >>
    /\ ret = << "running" >>

\* the device puts a frame, a fragment or silence on the line
DeviceSend ==
    /\ Len(rx) < MaxPending
    /\ \E c \in RxChunks : rx' = Append(rx, c)
    /\ UNCHANGED << pc, op, arg, msg, count, align_count, init_aligned,
                    tx, first_tx, nwrites, nreads, last_read, ret >>

\* Tiny.__init__: the port is open; run align, or finish at once
Tiny_init ==
    /\ pc = "__init__"
    /\ IF InitAligns
         THEN /\ pc' = "align"
              /\ UNCHANGED << init_aligned, ret >>
         ELSE /\ pc' = "idle"
              /\ init_aligned' = "unset"
              /\ ret' = << "None" >>
    /\ UNCHANGED << op, arg, msg, count, align_count, rx, tx, first_tx,
                    nwrites, nreads, last_read >>

\* align: write the probe and enter _waitFor
align ==
    /\ pc = "align"
    /\ PortWrite(AlignCmd)
    /\ pc' = "_waitFor"
    /\ msg' = AlignReply
    /\ count' = 0
    /\ nreads' = 0
    /\ UNCHANGED << op, arg, align_count, init_aligned, rx, last_read, ret >>

\* the operation returns r to the caller
Return(r) ==
    /\ pc' = "idle"
    /\ ret' = r
    /\ msg' = << >>
    /\ count' = 0
    /\ align_count' = 0

\* _waitFor returned r to align: count the try, loop or return; the
\* value align returns to __init__ is kept there
AlignResume(r) ==
    IF AlignEnds(r, align_count)
      THEN /\ Return(<< "bool", r >>)
           /\ init_aligned' = IF op = "__init__"
                                THEN (IF r THEN "True" ELSE "False")
                                ELSE init_aligned
      ELSE /\ pc' = "align"
           /\ align_count' = align_count + 1
           /\ msg' = << >>
           /\ count' = 0
           /\ UNCHANGED << init_aligned, ret >>

\* _waitFor returned r to resetClock or align
WaitReturn(r) ==
    IF op = "resetClock"
      THEN /\ Return(<< "bool", r >>)
           /\ UNCHANGED init_aligned
      ELSE AlignResume(r)

\* _waitFor keeping the frames it does not wait for, for later reads
_waitFor_Requeue ==
    /\ pc = "_waitFor"
    /\ LET rcv == _read(PortRead, FRAMELEN)
           out == WaitOutcome(msg, rcv, count)
       IN  /\ last_read' = PortRead
           /\ nreads' = nreads + 1
           /\ IF out = "again"
                THEN /\ count' = count + 1
                     /\ rx' = Append(PortRest, PortRead)
                     /\ UNCHANGED << pc, msg, align_count, init_aligned, ret >>
                ELSE /\ WaitReturn(out = "True")
                     /\ rx' = PortRest
    /\ UNCHANGED << op, arg, tx, first_tx, nwrites >>

\* _waitFor completing a short read with the bytes of the next read
_waitFor_Stitch ==
    /\ pc = "_waitFor"
    /\ LET got == IF Len(last_read) \in 1..4
                    THEN last_read \o PortRead ELSE PortRead
           rcv == _read(got, FRAMELEN)
           out == WaitOutcome(msg, rcv, count)
       IN  /\ PortReadStep
           /\ IF out = "again"
                THEN /\ count' = count + 1
                     /\ UNCHANGED << pc, msg, align_count, init_aligned, ret >>
                ELSE WaitReturn(out = "True")
    /\ UNCHANGED << op, arg, tx, first_tx, nwrites >>

\* _waitFor: one pass of its loop, one read
_waitFor ==
    /\ pc = "_waitFor"
    /\ LET rcv == _read(PortRead, FRAMELEN)
           out == WaitOutcome(msg, rcv, count)
       IN  /\ PortReadStep
           /\ IF out = "again"
                THEN /\ count' = count + 1
                     /\ UNCHANGED << pc, msg, align_count, init_aligned, ret >>
                ELSE WaitReturn(out = "True")
    /\ UNCHANGED << op, arg, tx, first_tx, nwrites >>

\* the caller invokes o with arguments a
Invoke(o, a) ==
    /\ pc' = o
    /\ op' = o
    /\ arg' = a
    /\ align_count' = 0
    /\ nwrites' = 0
    /\ nreads' = 0
    /\ last_read' = << >>
    /\ ret' = << "running" >>
    /\ UNCHANGED << msg, count, init_aligned, rx, tx, first_tx >>

Call_align ==
    /\ pc = "idle"
    /\ Invoke("align", NoArg)

Call_resetClock ==
    /\ pc = "idle"
    /\ \E ack \in AckValues : Invoke("resetClock", [ack |-> ack])

Call_readMsg ==
    /\ pc = "idle"
    /\ Invoke("readMsg", NoArg)

Call_setPorts ==
    /\ pc = "idle"
    /\ \E pa \in PortAValues, pb \in PortBValues :
           Invoke("setPorts", [pa |-> pa, pb |-> pb])

Call_setPortB ==
    /\ pc = "idle"
    /\ \E pb \in PortBValues : Invoke("setPortB", [pb |-> pb])

Call_schedulePortA ==
    /\ pc = "idle"
    /\ \E pa \in PortAValues, clock \in ClockValues :
           Invoke("schedulePortA", [pa |-> pa, clock |-> clock])

\* resetClock: write the command, then wait for its echo or return True
resetClock ==
    /\ pc = "resetClock"
    /\ LET cmd == ResetClockCmd(arg.ack)
       IN  /\ PortWrite(cmd)
           /\ IF ResetWaits(arg.ack)
                THEN /\ pc' = "_waitFor"
                     /\ msg' = cmd
                     /\ count' = 0
                     /\ UNCHANGED << align_count, ret >>
                ELSE Return(<< "bool", TRUE >>)
    /\ UNCHANGED << op, arg, init_aligned, rx, nreads, last_read >>

\* readMsg reading once more after a short or empty read
readMsg_Retry ==
    /\ pc = "readMsg"
    /\ LET first  == _read(PortRead, FRAMELEN)
           second == IF PortRest = << >> THEN << >> ELSE Head(PortRest)
       IN  IF first # << >>
             THEN /\ Return(ReadMsgResult(first))
                  /\ PortReadStep
             ELSE /\ Return(ReadMsgResult(_read(second, FRAMELEN)))
                  /\ last_read' = second
                  /\ rx' = IF PortRest = << >> THEN << >> ELSE Tail(PortRest)
                  /\ nreads' = nreads + 2
    /\ UNCHANGED << op, arg, init_aligned, tx, first_tx, nwrites >>

\* readMsg: one read, decoded when complete
readMsg ==
    /\ pc = "readMsg"
    /\ LET frame == _read(PortRead, FRAMELEN)
       IN  Return(ReadMsgResult(frame))
    /\ PortReadStep
    /\ UNCHANGED << op, arg, init_aligned, tx, first_tx, nwrites >>

\* setPorts reading the echo of its command
setPorts_AwaitsEcho ==
    /\ pc = "setPorts"
    /\ PortWrite(SetPortsCmd(arg.pa, arg.pb))
    /\ PortReadStep
    /\ Return(<< "None" >>)
    /\ UNCHANGED << op, arg, init_aligned >>

\* setPorts: one write
setPorts ==
    /\ pc = "setPorts"
    /\ PortWrite(SetPortsCmd(arg.pa, arg.pb))
    /\ Return(<< "None" >>)
    /\ UNCHANGED << op, arg, init_aligned, rx, nreads, last_read >>

\* setPortB: one write
setPortB ==
    /\ pc = "setPortB"
    /\ PortWrite(SetPortBCmd(arg.pb))
    /\ Return(<< "None" >>)
    /\ UNCHANGED << op, arg, init_aligned, rx, nreads, last_read >>

\* schedulePortA sending its buffer, ticks unset, for a clock of another type
schedulePortA_SendsUnfilled ==
    /\ pc = "schedulePortA"
    /\ IF ScheduleWrites(arg.clock)
         THEN PortWrite(SchedulePortACmd(arg.pa, arg.clock))
         ELSE PortWrite([ZeroFrame EXCEPT ![1] = BitOr(224, AndMask(arg.pa, 31))])
    /\ Return(ScheduleResult(arg.clock))
    /\ UNCHANGED << op, arg, init_aligned, rx, nreads, last_read >>

\* schedulePortA: one write; none for a clock of another type, or when
\* the conversion of a float raises
schedulePortA ==
    /\ pc = "schedulePortA"
    /\ IF ScheduleWrites(arg.clock)
         THEN PortWrite(SchedulePortACmd(arg.pa, arg.clock))
         ELSE UNCHANGED << tx, first_tx, nwrites >>
    /\ Return(ScheduleResult(arg.clock))
    /\ UNCHANGED << op, arg, init_aligned, rx, nreads, last_read >>

Next ==
    \/ DeviceSend
    \/ Tiny_init
    \/ Call_align
    \/ align
    \/ _waitFor
    \/ Call_resetClock
    \/ resetClock
    \/ Call_readMsg
    \/ readMsg
    \/ Call_setPorts
    \/ setPorts
    \/ Call_setPortB
    \/ setPortB
    \/ Call_schedulePortA
    \/ schedulePortA

Spec == Init /\ [][Next]_vars

\* ------------------------------------------------------------ codec runs
\* One operation on a session that aligned at its first try, its input
\* drawn from the whole range of its fields.
CodecTicks ==
    { << hi, lo >> : hi \in { 0, 1, 2, 32767, 32768, 51966, 65534, 65535 },
                     lo \in { 0, 1, 2, 32768, 48879, 65535 } }

\* frames of every byte 0, and heartbeats and inputs of every tick above
CodecFrames ==
    { << b0, b1, 1, b3, 2 >> : b0 \in 0..255, b1 \in { 0, 255 },
                                b3 \in { 0, 31, 128, 159 } }
    \cup { << b0 >> \o PackL(t) : b0 \in { 16, 78 }, t \in CodecTicks }

CodecPortA == 0..31

CodecPortB == 0..255

CodecInit ==
    /\ pc = "idle"
    /\ op = "__init__"
    /\ arg = NoArg
    /\ msg = << >>
    /\ count = 0
    /\ align_count = 0
    /\ init_aligned = "True"
    /\ rx \in { << >> } \cup { << f >> : f \in CodecFrames }
    /\ tx = AlignCmd
    /\ first_tx = AlignCmd
    /\ nwrites = 1
    /\ nreads = 1
    /\ last_read = AlignReply
    /\ ret = << "bool", TRUE >>

\* the caller's first call on the fresh session
Fresh == pc = "idle" /\ op = "__init__"

Codec_readMsg ==
    /\ Fresh
    /\ Invoke("readMsg", NoArg)

Codec_resetClock ==
    /\ Fresh
    /\ rx = << >>
    /\ \E ack \in CodecTicks : Invoke("resetClock", [ack |-> ack])

Codec_setPorts ==
    /\ Fresh
    /\ rx = << >>
    /\ \E pa \in CodecPortA, pb \in CodecPortB :
           Invoke("setPorts", [pa |-> pa, pb |-> pb])

Codec_setPortB ==
    /\ Fresh
    /\ rx = << >>
    /\ \E pb \in CodecPortB : Invoke("setPortB", [pb |-> pb])

\* a float clock: the quotient num / den, negated when neg
Seconds(neg, num, den) ==
    [type |-> "float", kind |-> "finite", neg |-> neg, num |-> num, den |-> den]

\* integer clocks outside 0..2^32-1: 2^32, 2^32 + 65538, 2^46 + 1, -1,
\* -2^32, -4295098363
CodecWideInts ==
    { << 65536, 0 >>, << 65537, 2 >>, << 1073741824, 1 >>,
      << -1, 65535 >>, << -65536, 0 >>, << -65538, 5 >> }

\* float clocks: 1.5, 0.1, 30000.25 (past 2^32 ticks, a tie), 3.2e-6 and
\* 9.6e-6 (ties), 27487.790694 (the last tick), -1.5, -3.2e-6, 2^20 + 0.5,
\* and the floats round() raises on
CodecSeconds ==
    { Seconds(FALSE, << 0, 3 >>, 2), Seconds(FALSE, << 0, 1 >>, 10),
      Seconds(FALSE, << 1, 54465 >>, 4), Seconds(FALSE, << 0, 1 >>, 312500),
      Seconds(FALSE, << 0, 3 >>, 312500),
      Seconds(FALSE, << 65535, 65535 >>, 156250),
      Seconds(TRUE, << 0, 3 >>, 2), Seconds(TRUE, << 0, 1 >>, 312500),
      Seconds(FALSE, << 32, 1 >>, 2),
      [type |-> "float", kind |-> "inf"], [type |-> "float", kind |-> "nan"] }

CodecClocks ==
    { [type |-> "int", val |-> t] : t \in CodecTicks \cup CodecWideInts }
    \cup CodecSeconds

Codec_schedulePortA ==
    /\ Fresh
    /\ rx = << >>
    /\ \E pa \in CodecPortA, clock \in CodecClocks :
           Invoke("schedulePortA", [pa |-> pa, clock |-> clock])

\* the time of the event readMsg returned, given back to schedulePortA
Codec_scheduleAt ==
    /\ pc = "idle"
    /\ op = "readMsg"
    /\ ret[1] \in { "clock", "input", "schedule" }
    /\ \E pa \in { 0, 31 } :
           Invoke("schedulePortA",
                  [pa |-> pa,
                   clock |-> Seconds(FALSE, ret[Len(ret)][2], ret[Len(ret)][3])])

CodecNext ==
    \/ Codec_readMsg
    \/ readMsg
    \/ Codec_resetClock
    \/ resetClock
    \/ _waitFor
    \/ Codec_setPorts
    \/ setPorts
    \/ Codec_setPortB
    \/ setPortB
    \/ Codec_schedulePortA
    \/ Codec_scheduleAt
    \/ schedulePortA

SpecCodec == CodecInit /\ [][CodecNext]_vars

\* ------------------------------------------------------------ two callers
\* Two threads call resetClock on one session. The port and its lines are
\* shared; cmd, msg, count and the value returned are locals of each call,
\* so pc, arg, msg, count, nreads, last_read and ret hold one value per
\* caller. tx holds the commands written and not yet echoed by the device.
Callers == { 1, 2 }

ConcAcks == { << 0, 1 >>, << 0, 2 >>, << 51966, 48879 >> }

ConcInit ==
    /\ pc = [i \in Callers |-> "idle"]
    /\ op = "resetClock"
    /\ arg = [i \in Callers |-> [ack |-> << 0, 0 >>]]
    /\ msg = [i \in Callers |-> << >>]
    /\ count = [i \in Callers |-> 0]
    /\ align_count = 0
    /\ init_aligned = "True"
    /\ rx = << >>
    /\ tx = << >>
    /\ first_tx = AlignCmd
    /\ nwrites = 0
    /\ nreads = [i \in Callers |-> 0]
    /\ last_read = [i \in Callers |-> << >>]
    /\ ret = [i \in Callers |-> << "none" >>]

\* caller i calls resetClock(ack), once, with an ack the other did not use
Conc_Call(i) ==
    /\ pc[i] = "idle"
    /\ ret[i] = << "none" >>
    /\ \E ack \in ConcAcks :
           /\ \A j \in Callers : arg[j].ack # ack
           /\ arg' = [arg EXCEPT ![i] = [ack |-> ack]]
    /\ pc' = [pc EXCEPT ![i] = "resetClock"]
    /\ ret' = [ret EXCEPT ![i] = << "running" >>]
    /\ UNCHANGED << op, msg, count, align_count, init_aligned, rx, tx,
                    first_tx, nwrites, nreads, last_read >>

\* resetClock in caller i: write the command, then wait or return True
Conc_resetClock(i) ==
    /\ pc[i] = "resetClock"
    /\ LET cmd == ResetClockCmd(arg[i].ack)
       IN  /\ tx' = Append(tx, cmd)
           /\ nwrites' = nwrites + 1
           /\ IF ResetWaits(arg[i].ack)
                THEN /\ pc' = [pc EXCEPT ![i] = "_waitFor"]
                     /\ msg' = [msg EXCEPT ![i] = cmd]
                     /\ count' = [count EXCEPT ![i] = 0]
                     /\ UNCHANGED ret
                ELSE /\ pc' = [pc EXCEPT ![i] = "idle"]
                     /\ ret' = [ret EXCEPT ![i] = << "bool", TRUE >>]
                     /\ UNCHANGED << msg, count >>
    /\ UNCHANGED << op, arg, align_count, init_aligned, rx, first_tx,
                    nreads, last_read >>

\* _waitFor in caller i: one pass of its loop, one read of the shared port
Conc_waitFor(i) ==
    /\ pc[i] = "_waitFor"
    /\ LET rcv == _read(PortRead, FRAMELEN)
           out == WaitOutcome(msg[i], rcv, count[i])
       IN  /\ last_read' = [last_read EXCEPT ![i] = PortRead]
           /\ rx' = PortRest
           /\ nreads' = [nreads EXCEPT ![i] = nreads[i] + 1]
           /\ IF out = "again"
                THEN /\ count' = [count EXCEPT ![i] = count[i] + 1]
                     /\ UNCHANGED << pc, msg, ret >>
                ELSE /\ pc' = [pc EXCEPT ![i] = "idle"]
                     /\ ret' = [ret EXCEPT ![i] = << "bool", out = "True" >>]
                     /\ msg' = [msg EXCEPT ![i] = << >>]
                     /\ count' = [count EXCEPT ![i] = 0]
    /\ UNCHANGED << op, arg, align_count, init_aligned, tx, first_tx, nwrites >>

\* the device echoes the oldest command it has not yet answered
Conc_DeviceEcho ==
    /\ tx # << >>
    /\ rx' = Append(rx, Head(tx))
    /\ tx' = Tail(tx)
    /\ UNCHANGED << pc, op, arg, msg, count, align_count, init_aligned,
                    first_tx, nwrites, nreads, last_read, ret >>

Conc_CallAny == \E i \in Callers : Conc_Call(i)

Conc_resetClockAny == \E i \in Callers : Conc_resetClock(i)

Conc_waitForAny == \E i \in Callers : Conc_waitFor(i)

ConcNext ==
    \/ Conc_CallAny
    \/ Conc_resetClockAny
    \/ Conc_waitForAny
    \/ Conc_DeviceEcho

SpecConc == ConcInit /\ [][ConcNext]_vars

\* ------------------------------------------------------------ properties
\* the step is a read made by _waitFor
WaitReads == pc = "_waitFor" /\ nreads' = nreads + 1

\* the step ends the wait, which returns False to its caller
WaitFails ==
    /\ pc = "_waitFor"
    /\ \/ pc' = "align"
       \/ pc' = "idle" /\ ret' = << "bool", FALSE >>

\* the step ends the wait, which returns True to its caller
WaitSucceeds ==
    /\ pc = "_waitFor"
    /\ pc' = "idle"
    /\ ret' = << "bool", TRUE >>

InAlign == op \in { "__init__", "align" }

\* C1: align writes the probe at most 6 times; when the wait of try k reads
\* the reply, align returns True after exactly k probe writes; when align
\* returns False it has written the probe exactly 6 times; every write align
\* makes is the probe, and the step that returns writes nothing.
C1_AlignTries ==
    [][ /\ (pc = "align" /\ pc' = "_waitFor") =>
               /\ tx' = << 16, 224, 127, 15, 85, 42 >>
               /\ nwrites' = align_count + 1
               /\ nwrites' <= 6
        /\ (InAlign /\ WaitReads) =>
               /\ nwrites' = nwrites
               /\ nwrites = align_count + 1
               /\ (PortRead = << 224, 127, 15, 85, 42 >> => WaitSucceeds)
               /\ (pc' = "idle" /\ ret' = << "bool", FALSE >> => nwrites = 6)
               /\ (pc' = "idle" => ret'[1] = "bool")
      ]_vars

\* C1 witness: align has returned True on its 6th try
C1_Witness ==
    /\ op = "align"
    /\ pc = "idle"
    /\ ret = << "bool", TRUE >>
    /\ nwrites = 6
    /\ last_read = << 224, 127, 15, 85, 42 >>

\* C2 as stated: a wait that has read 20 full frames without a match has
\* returned, so it makes no 21st read.
C2_AtMost20Reads == pc = "_waitFor" => nreads < 20

\* C2 amended: a wait reads at most 21 frames; after 21 full frames without
\* a match it returns False, and while it is still reading it has read at
\* most 20 frames, all of them counted.
C2_AtMost21Reads ==
    [][ WaitReads =>
            /\ nreads = count
            /\ nreads' <= 21
            /\ (nreads' = 21 /\ PortRead # msg => WaitFails)
            /\ (nreads' <= 20 /\ Len(PortRead) = 5 /\ PortRead # msg =>
                    pc' = "_waitFor")
      ]_vars

\* C2 witness: a wait has returned False on its 21st full frame
C2_Witness ==
    /\ op = "resetClock"
    /\ pc = "idle"
    /\ ret = << "bool", FALSE >>
    /\ nreads = 21
    /\ Len(last_read) = 5

\* C3: when read k of a wait, k in 1..20, returns the expected frame, the
\* wait returns True after exactly k reads and consumes that frame only.
C3_MatchAtK ==
    [][ (WaitReads /\ nreads' \in 1..20 /\ PortRead = msg) =>
            /\ WaitSucceeds
            /\ rx # << >>
            /\ rx' = Tail(rx)
            /\ nreads' = count + 1
      ]_vars

\* C3 witness: a wait returned True on its 20th read and a later frame is
\* still pending
C3_Witness ==
    /\ op = "resetClock"
    /\ pc = "idle"
    /\ ret = << "bool", TRUE >>
    /\ nreads = 20
    /\ last_read = tx
    /\ rx # << >>

\* C4: a read of zero bytes ends the wait with False in that step, however
\* many frames were read before and whatever is pending behind it.
C4_EmptyReadFails ==
    [][ (WaitReads /\ PortRead = << >>) => WaitFails ]_vars

\* C4 witness: a wait failed on an empty third read with its echo pending
C4_Witness ==
    /\ op = "resetClock"
    /\ pc = "idle"
    /\ ret = << "bool", FALSE >>
    /\ nreads = 3
    /\ last_read = << >>
    /\ rx # << >>
    /\ Head(rx) = tx

\* the 4 big-endian bytes of the 32-bit value v
BigEndian32(v) ==
    << (v[1] \div 256) % 256, v[1] % 256, (v[2] \div 256) % 256, v[2] % 256 >>

\* C5: resetClock writes one frame, 00 and the big-endian ack, before any
\* read; with ack = 0 it returns True without reading; with ack # 0 it
\* returns True exactly when the last read of its wait returned the frame
\* it wrote.
C5_ResetClock ==
    op = "resetClock" =>
        /\ pc = "resetClock" => nwrites = 0 /\ nreads = 0
        /\ pc # "resetClock" =>
               /\ nwrites = 1
               /\ tx = << 0 >> \o BigEndian32(arg.ack)
        /\ (pc = "idle" /\ arg.ack = << 0, 0 >>) =>
               ret = << "bool", TRUE >> /\ nreads = 0
        /\ (pc = "idle" /\ arg.ack # << 0, 0 >>) =>
               /\ nreads >= 1
               /\ ret[1] = "bool"
               /\ ret[2] <=> (last_read = tx)
        /\ (pc = "_waitFor") => arg.ack # << 0, 0 >> /\ msg = tx

\* C5 witness: resetClock(0xCAFEBEEF) acknowledged by the first read
C5_Witness ==
    /\ op = "resetClock"
    /\ pc = "idle"
    /\ arg.ack = << 51966, 48879 >>
    /\ tx = << 0, 202, 254, 190, 239 >>
    /\ nreads = 1
    /\ ret = << "bool", TRUE >>

\* ------------------------------------------------------------ events
\* the value of a hexadecimal digit
HexVal(c) == (CHOOSE i \in 1..16 : HexUpper[i] = c \/ HexLower[i] = c) - 1

\* the byte written as two hexadecimal digits at s[i], s[i+1]
HexByte(s, i) == 16 * HexVal(s[i]) + HexVal(s[i + 1])

\* the bytes written as hexadecimal text
HexBytes(s) == [i \in 1..(Len(s) \div 2) |-> HexByte(s, 2 * i - 1)]

\* the event a tuple returned by readMsg stands for; no sub-code is -1
EventOf(e) ==
    CASE e[1] = "clock" ->
           [type |-> "ClockHeartbeat", tick |-> e[2], time |-> e[3]]
      [] e[1] = "input" /\ Len(e[2]) = 1 ->
           [type |-> "Input", channel |-> HexVal(e[2][1]), sub_code |-> -1,
            time |-> e[3]]
      [] e[1] = "input" /\ Len(e[2]) = 4 /\ e[2][2] = ":" ->
           [type |-> "Input", channel |-> HexVal(e[2][1]),
            sub_code |-> HexByte(e[2], 3), time |-> e[3]]
      [] e[1] = "setports" /\ SubSeq(e[2], 1, 3) = << "P", "A", ":" >>
                           /\ SubSeq(e[3], 1, 3) = << "P", "B", ":" >> ->
           [type |-> "PortsSet", port_a |-> HexByte(e[2], 4),
            port_b |-> HexByte(e[3], 4)]
      [] e[1] = "setportb" /\ SubSeq(e[2], 1, 3) = << "P", "B", ":" >> ->
           [type |-> "PortBSet", port_b |-> HexByte(e[2], 4)]
      [] e[1] = "reset" ->
           [type |-> "ResetEcho", payload |-> HexBytes(e[2])]
      [] e[1] = "schedule" /\ SubSeq(e[2], 1, 3) = << "P", "A", ":" >> ->
           [type |-> "ScheduledOutput", port_a |-> HexByte(e[2], 4), time |-> e[3]]
      [] e[1] = "unknown" ->
           [type |-> "Unknown", raw |-> HexBytes(e[2])]
      [] OTHER -> [type |-> "malformed"]

\* the big-endian 32-bit value of bytes 1..4 of a frame
TickOf(f) == << f[2] * 256 + f[3], f[4] * 256 + f[5] >>

\* the time of a tick
TimeOf(t) == << "div", t, 156250 >>

\* the ordered decode table
TableEvent(f) ==
    LET b0 == f[1]
        hi == b0 - (b0 % 16)
    IN  IF hi = 16 THEN
            [type |-> "ClockHeartbeat", tick |-> TickOf(f), time |-> TimeOf(TickOf(f))]
        ELSE IF hi = 32 THEN
            [type |-> "Input", channel |-> 1, sub_code |-> -1, time |-> TimeOf(TickOf(f))]
        ELSE IF hi = 64 THEN
            [type |-> "Input", channel |-> 2, sub_code |-> (b0 % 16) - (b0 % 2),
             time |-> TimeOf(TickOf(f))]
        ELSE IF hi = 128 THEN
            [type |-> "Input", channel |-> 3, sub_code |-> b0 % 8,
             time |-> TimeOf(TickOf(f))]
        ELSE IF b0 = 4 THEN
            IF f[4] >= 128
              THEN [type |-> "PortsSet", port_a |-> f[4] % 32, port_b |-> f[2]]
              ELSE [type |-> "PortBSet", port_b |-> f[2]]
        ELSE IF b0 = 0 THEN
            [type |-> "ResetEcho", payload |-> << f[2], f[3], f[4], f[5] >>]
        ELSE IF b0 - (b0 % 32) = 224 THEN
            [type |-> "ScheduledOutput", port_a |-> b0 % 32, time |-> TimeOf(TickOf(f))]
        ELSE
            [type |-> "Unknown", raw |-> f]

\* C6: the event readMsg returns for a full frame is the one the first
\* matching rule of the ordered table gives, for every byte 0.
C6_DecodeTable ==
    (pc = "idle" /\ op = "readMsg" /\ Len(last_read) = 5) =>
        /\ ret[1] # "None"
        /\ EventOf(ret) = TableEvent(last_read)

\* C6 witness: the heartbeat 10 00 01 00 02 was read as tick 0x00010002
C6_Witness ==
    /\ pc = "idle"
    /\ op = "readMsg"
    /\ last_read = << 16, 0, 1, 0, 2 >>
    /\ ret = << "clock", << 1, 2 >>, << "div", << 1, 2 >>, 156250 >> >>

\* the event readMsg decodes from the buffer written last
Loopback == EventOf(ReadMsgResult(_read(tx, FRAMELEN)))

\* C7: the frame a command wrote decodes to an event with the command's
\* fields, for every port A in 0..31, port B in 0..255 and 32-bit tick.
C7_RoundTrip ==
    (pc = "idle" /\ nwrites = 1) =>
        /\ op = "setPorts" =>
               Loopback = [type |-> "PortsSet", port_a |-> arg.pa, port_b |-> arg.pb]
        /\ op = "setPortB" =>
               Loopback = [type |-> "PortBSet", port_b |-> arg.pb]
        /\ (op = "schedulePortA" /\ arg.clock.type = "int"
               /\ arg.clock.val[1] \in 0..65535) =>
               Loopback = [type |-> "ScheduledOutput", port_a |-> arg.pa,
                           time |-> TimeOf(arg.clock.val)]
        /\ op = "resetClock" =>
               Loopback = [type |-> "ResetEcho", payload |-> BigEndian32(arg.ack)]

\* C7 witness: schedulePortA with bit 0x10 of port A set has written its frame
C7_Witness ==
    /\ pc = "idle"
    /\ op = "schedulePortA"
    /\ arg.pa = 31
    /\ arg.clock.type = "int"
    /\ arg.clock.val = << 51966, 48879 >>
    /\ tx = << 255, 202, 254, 190, 239 >>

\* C8: setPorts and setPortB each make one write of 5 bytes, 04, pb mod 256,
\* 00, 0x80 + pa mod 32 or 00, 00, and no read: what is pending in the
\* transport stays pending.
C8_FireAndForget ==
    [][ /\ (pc = "setPorts" /\ pc' # pc) =>
               /\ pc' = "idle"
               /\ tx' = << 4, arg.pb % 256, 0, 128 + (arg.pa % 32), 0 >>
               /\ nwrites' = 1
               /\ nreads' = 0
               /\ rx' = rx
        /\ (pc = "setPortB" /\ pc' # pc) =>
               /\ pc' = "idle"
               /\ tx' = << 4, arg.pb % 256, 0, 0, 0 >>
               /\ nwrites' = 1
               /\ nreads' = 0
               /\ rx' = rx
      ]_vars

\* C8 witness: setPorts(53, 258) has returned and the echo of an earlier
\* command is still pending
C8_Witness ==
    /\ pc = "idle"
    /\ op = "setPorts"
    /\ arg = [pa |-> 53, pb |-> 258]
    /\ tx = << 4, 2, 0, 149, 0 >>
    /\ rx # << >>
    /\ Head(rx) = << 4, 255, 0, 159, 0 >>

\* C9: readMsg makes one read and no write; it returns an event when the
\* read returned 5 bytes and None when it returned fewer.
C9_ReadMsgOnce ==
    [][ (pc = "readMsg" /\ pc' # pc) =>
            /\ pc' = "idle"
            /\ nreads' = 1
            /\ nwrites' = 0
            /\ tx' = tx
            /\ rx' = (IF rx = << >> THEN << >> ELSE Tail(rx))
            /\ last_read' = (IF rx = << >> THEN << >> ELSE Head(rx))
            /\ (Len(last_read') = 5 =>
                    /\ ret'[1] # "None"
                    /\ EventOf(ret') = TableEvent(last_read'))
            /\ (Len(last_read') < 5 => ret' = << "None" >>)
      ]_vars

\* C9 witness: readMsg returned None on a short read and left the next
\* frame pending
C9_Witness ==
    /\ pc = "idle"
    /\ op = "readMsg"
    /\ Len(last_read) \in 1..4
    /\ ret = << "None" >>
    /\ nreads = 1
    /\ rx # << >>
    /\ Len(Head(rx)) = 5

\* C10: the first buffer written is the probe; no operation starts before
\* the align run of __init__ has returned, after 1..6 probe writes; after a
\* failed alignment the commands still write their frame and readMsg still
\* decodes.
C10_InitAligns ==
    /\ first_tx # << >> => first_tx = << 16, 224, 127, 15, 85, 42 >>
    /\ (pc = "idle" \/ op # "__init__") => init_aligned \in { "True", "False" }
    /\ (pc = "idle" /\ op = "__init__") =>
           /\ ret = << "bool", init_aligned = "True" >>
           /\ nwrites \in 1..6
           /\ init_aligned = "False" => nwrites = 6
    /\ (pc = "idle" /\ init_aligned = "False") =>
           /\ op \in { "setPorts", "setPortB", "resetClock" } =>
                  nwrites = 1 /\ Len(tx) = 5
           /\ (op = "setPorts") => tx = SetPortsCmd(arg.pa, arg.pb)
           /\ (op = "readMsg" /\ Len(last_read) = 5) =>
                  ret[1] # "None" /\ EventOf(ret) = TableEvent(last_read)

\* C10 witness: after a failed alignment a command was written and readMsg
\* decoded a heartbeat
C10_Witness ==
    /\ init_aligned = "False"
    /\ pc = "idle"
    /\ op = "readMsg"
    /\ tx = << 4, 255, 0, 159, 0 >>
    /\ last_read = << 16, 0, 1, 0, 2 >>
    /\ ret[1] = "clock"

\* C11: schedulePortA with a clock that is neither an int nor a float
\* returns without any write: the buffer written last, the first buffer
\* written and the pending reads are as they were.
C11_InvalidClockNoWrite ==
    [][ (pc = "schedulePortA" /\ pc' # pc
         /\ arg.clock.type \notin { "int", "float" }) =>
            /\ pc' = "idle"
            /\ nwrites' = 0
            /\ nreads' = 0
            /\ tx' = tx
            /\ first_tx' = first_tx
            /\ rx' = rx
      ]_vars

\* C11 witness: schedulePortA with such a clock has returned, the buffer
\* written last still that of an earlier setPorts
C11_Witness ==
    /\ pc = "idle"
    /\ op = "schedulePortA"
    /\ arg.clock.type = "other"
    /\ nwrites = 0
    /\ tx = << 4, 255, 0, 159, 0 >>

\* C17: in a wait a read of 1..4 bytes is treated as a read of nothing: the
\* step that makes it ends the wait with failure, also when the frame
\* waited for is the next one on the line; it is not counted as a discarded
\* frame and no further read follows.
C17_ShortReadFails ==
    [][ (WaitReads /\ Len(PortRead) \in 1..4) =>
            /\ WaitFails
            /\ count' = 0
            /\ rx' = Tail(rx)
      ]_vars

\* C17 witness: resetClock returned False on a short first read, the echo
\* of its command next on the line and unread
C17_Witness ==
    /\ op = "resetClock"
    /\ pc = "idle"
    /\ ret = << "bool", FALSE >>
    /\ nreads = 1
    /\ Len(last_read) \in 1..4
    /\ rx # << >>
    /\ Head(rx) = tx

\* C13: a read of fewer than 5 bytes is discarded whole: every event
\* readMsg returns is the decode of the one read that step made, which
\* returned exactly 5 bytes; every wait that succeeds read, in that step, 5
\* bytes equal to the frame waited for; a step that reads 1..4 bytes yields
\* no event and no match, whatever the reads before it returned.
C13_WholeFramesOnly ==
    [][ /\ (pc = "readMsg" /\ pc' # pc /\ ret'[1] # "None") =>
               /\ Len(PortRead) = 5
               /\ EventOf(ret') = TableEvent(PortRead)
        /\ (WaitReads /\ (WaitSucceeds \/ (InAlign /\ pc' = "idle"
                                           /\ ret' = << "bool", TRUE >>))) =>
               /\ Len(PortRead) = 5
               /\ PortRead = msg
        /\ (nreads' = nreads + 1 /\ Len(PortRead) \in 1..4) =>
               /\ last_read' = PortRead
               /\ \/ pc' = "align"
                  \/ pc' = "idle" /\ ret' \in { << "None" >>, << "bool", FALSE >> }
      ]_vars

\* C13 witness: a try of align read the first 2 bytes of the reply and
\* failed; the other 3 bytes are the next thing on the line
C13_Witness ==
    /\ InAlign
    /\ pc = "align"
    /\ align_count >= 1
    /\ last_read = << 224, 127 >>
    /\ rx # << >>
    /\ Head(rx) = << 15, 85, 42 >>

\* C12: what arrives during a wait is lost, not queued: every read takes
\* exactly the head of the line, so each frame is consumed by one read; only
\* the device adds to the line, the session never puts a frame back; a
\* frame a wait read and did not match stays consumed while the wait goes
\* on or fails; what readMsg returns is the decode of the head of the line
\* at its own read, nothing when the line is empty.
C12_EventsInWaitLost ==
    [][ /\ (nreads' = nreads + 1) =>
               /\ rx' = PortRest
               /\ last_read' = PortRead
        /\ (nreads' # nreads + 1 /\ rx' # rx) =>
               /\ Len(rx') = Len(rx) + 1
               /\ SubSeq(rx', 1, Len(rx)) = rx
               /\ UNCHANGED << pc, op, msg, count, tx, ret >>
        /\ (WaitReads /\ Len(PortRead) = 5 /\ PortRead # msg) =>
               /\ rx' = Tail(rx)
               /\ ~ WaitSucceeds
               /\ pc' = "_waitFor" => count' = count + 1
        /\ (pc = "readMsg" /\ pc' # pc) =>
               ret' = (IF rx # << >> /\ Len(Head(rx)) = 5
                         THEN Decode(Head(rx)) ELSE << "None" >>)
      ]_vars

\* C12 witness: the wait of resetClock has read a heartbeat in place of its
\* echo and counted it; the line is empty, the heartbeat is gone
C12_Witness ==
    /\ op = "resetClock"
    /\ pc = "_waitFor"
    /\ count = 1
    /\ last_read = << 16, 0, 1, 0, 2 >>
    /\ last_read # msg
    /\ rx = << >>

\* a step of the session: every action but the caller's and the device's
SessionStep ==
    \/ Tiny_init
    \/ align
    \/ _waitFor
    \/ resetClock
    \/ readMsg
    \/ setPorts
    \/ setPortB
    \/ schedulePortA

\* where a running operation stands: each of these has its step, whose
\* only guard is the position
SessionPcs ==
    { "__init__", "align", "_waitFor", "resetClock", "readMsg", "setPorts",
      "setPortB", "schedulePortA" }

\* transport calls one try of align can make: the write and the reads
TryCalls == WAITLIMIT + 2

\* an upper bound on the steps the running operation still takes
Rank ==
    CASE pc = "idle" -> 0
      [] pc \in { "readMsg", "setPorts", "setPortB", "schedulePortA" } -> 1
      [] pc = "resetClock" -> TryCalls
      [] pc = "_waitFor" /\ op = "resetClock" -> (WAITLIMIT + 1) - count
      [] pc = "_waitFor" /\ op # "resetClock" ->
             ((ALIGNLIMIT + 1 - align_count) * TryCalls - 1) - count
      [] pc = "align" -> (ALIGNLIMIT + 1 - align_count) * TryCalls
      [] pc = "__init__" -> (ALIGNLIMIT + 1) * TryCalls + 1

\* C14: every operation returns after a bounded number of transport calls,
\* whatever the transport delivers: a running operation always stands at
\* one of its steps, and each step lowers a bound that is never below 0; a wait reads
\* at most 21 times, align writes at most 6 probes, resetClock writes once,
\* and readMsg, setPorts, setPortB and schedulePortA make at most one
\* transport call.
C14_BoundedCalls ==
    /\ [] /\ Rank >= 0
          /\ (pc # "idle") => pc \in SessionPcs
          /\ (pc = "idle") => Rank = 0
          /\ nreads <= WAITLIMIT + 1
          /\ nwrites <= ALIGNLIMIT + 1
          /\ (op = "resetClock") => nwrites <= 1
          /\ (op \in { "readMsg", "setPorts", "setPortB", "schedulePortA" })
                 => nwrites + nreads <= 1
    /\ [][ SessionStep => Rank' < Rank ]_vars

\* C14 witness: align returned False after 6 probes, its last wait having
\* read 21 frames that were not the reply
C14_Witness ==
    /\ op = "align"
    /\ pc = "idle"
    /\ ret = << "bool", FALSE >>
    /\ nwrites = 6
    /\ nreads = 21
    /\ Len(last_read) = 5

\* the branches of the chain whose condition holds for byte 0
RulesFor(b0) == { i \in 1..7 : RuleHolds(i, b0) }

\* C19: the seven classifying conditions of readMsg are pairwise exclusive
\* over all 256 values of byte 0: for the frame readMsg read, of any byte
\* 0, at most one condition holds, and the event returned is the one of
\* that condition, "unknown" when none holds: the result does not depend on
\* the order of the chain.
C19_RulesExclusive ==
    (pc = "idle" /\ op = "readMsg" /\ Len(last_read) = 5) =>
        /\ Cardinality(RulesFor(last_read[1])) <= 1
        /\ \A i \in RulesFor(last_read[1]) : ret[1] \in RuleTypes(i)
        /\ (RulesFor(last_read[1]) = { }) <=> (ret[1] = "unknown")

\* C19 witness: readMsg decoded a frame of byte 0 0xF4, whose low nibble is
\* the output command's value, as a schedule event
C19_Witness ==
    /\ pc = "idle"
    /\ op = "readMsg"
    /\ Len(last_read) = 5
    /\ last_read[1] = 244
    /\ RulesFor(244) = { 7 }
    /\ ret[1] = "schedule"

\* whether the naturals a and b, as pairs, differ by at most 1
Within1(a, b) ==
    /\ a[1] - b[1] \in { -1, 0, 1 }
    /\ (a[1] - b[1]) * 65536 + (a[2] - b[2]) \in { -1, 0, 1 }

\* C16: for a tick t of 0..2^32-1, the seconds readMsg computes, t / 156250,
\* given to schedulePortA, which converts by round(seconds * 156250) and
\* masks to 32 bits, make it write a tick within 1 of t.
C16_TickRoundTrip ==
    (/\ pc = "idle"
     /\ op = "schedulePortA"
     /\ arg.clock.type = "float"
     /\ arg.clock.kind = "finite"
     /\ ~ arg.clock.neg
     /\ arg.clock.den = 156250
     /\ arg.clock.num[1] \in 0..65535) =>
        /\ nwrites = 1
        /\ Len(tx) = 5
        /\ Within1(<< tx[2] * 256 + tx[3], tx[4] * 256 + tx[5] >>, arg.clock.num)

\* C16 witness: readMsg returned a heartbeat of tick 0xCAFEBEEF and
\* schedulePortA, given its time, has written that tick
C16_Witness ==
    /\ pc = "idle"
    /\ op = "schedulePortA"
    /\ arg.clock.type = "float"
    /\ arg.clock.kind = "finite"
    /\ arg.clock.num = << 51966, 48879 >>
    /\ arg.clock.den = 156250
    /\ tx = << 224, 202, 254, 190, 239 >>
    /\ last_read = << >>
    /\ nwrites = 1

\* bytes 1..4 of the frame for the float clocks of CodecSeconds, as CPython
\* computes int(round(clock * 156250)) & 0xffffffff
RoundedTicks(clock) ==
    CASE clock = Seconds(FALSE, << 0, 3 >>, 2)            -> << 0, 3, 147, 135 >>
      [] clock = Seconds(FALSE, << 0, 1 >>, 10)           -> << 0, 0, 61, 9 >>
      [] clock = Seconds(FALSE, << 1, 54465 >>, 4)        -> << 23, 102, 43, 118 >>
      [] clock = Seconds(FALSE, << 0, 1 >>, 312500)       -> << 0, 0, 0, 0 >>
      [] clock = Seconds(FALSE, << 0, 3 >>, 312500)       -> << 0, 0, 0, 2 >>
      [] clock = Seconds(TRUE, << 0, 3 >>, 2)             -> << 255, 252, 108, 121 >>
      [] clock = Seconds(TRUE, << 0, 1 >>, 312500)        -> << 0, 0, 0, 0 >>
      [] clock = Seconds(FALSE, << 32, 1 >>, 2)           -> << 37, 161, 49, 45 >>
      [] clock.den = 156250 /\ ~ clock.neg                -> BigEndian32(clock.num)

\* bytes 1..4 the claim gives the frame of a clock that has a tick
TargetBytes(clock) ==
    IF clock.type = "int"
      THEN BigEndian32(<< clock.val[1] % 65536, clock.val[2] >>)
      ELSE RoundedTicks(clock)

\* the step is schedulePortA with an int or a float clock
SchedulesNumber ==
    /\ pc = "schedulePortA"
    /\ pc' # pc
    /\ arg.clock.type \in { "int", "float" }

\* C15 as stated: schedulePortA with an int clock of any magnitude and sign
\* or with any seconds value writes one frame of 5 bytes, byte 0
\* 0xE0 | (pa mod 32), and returns without an error.
C15_AlwaysWraps ==
    [][ SchedulesNumber =>
            /\ ret' = << "None" >>
            /\ nwrites' = 1
            /\ Len(tx') = 5
            /\ tx'[1] = 224 + (arg.pa % 32)
      ]_vars

\* C15 amended: schedulePortA with an int clock of any magnitude and sign,
\* or with a finite seconds value whose product with 156250 is finite,
\* writes one frame of 5 bytes, byte 0 0xE0 | (pa mod 32), bytes 1..4 the
\* big-endian tick modulo 2^32, and returns without an error; with an
\* infinite or NaN seconds value round() raises and nothing is written.
C15_FiniteWraps ==
    [][ /\ (SchedulesNumber /\ ~ ScheduleRaises(arg.clock)) =>
               /\ ret' = << "None" >>
               /\ nwrites' = 1
               /\ nreads' = 0
               /\ Len(tx') = 5
               /\ tx'[1] = 224 + (arg.pa % 32)
               /\ SubSeq(tx', 2, 5) = TargetBytes(arg.clock)
        /\ (SchedulesNumber /\ ScheduleRaises(arg.clock)) =>
               /\ ret'[1] = "raise"
               /\ nwrites' = 0
               /\ tx' = tx
      ]_vars

\* C15 witness: schedulePortA(31, 30000.25) has written the tick
\* 4687539062 - 2^32, the tie of 4687539062.5 rounded to even
C15_Witness ==
    /\ pc = "idle"
    /\ op = "schedulePortA"
    /\ arg.clock = Seconds(FALSE, << 1, 54465 >>, 4)
    /\ arg.pa = 31
    /\ ret = << "None" >>
    /\ tx = << 255, 23, 102, 43, 118 >>

\* the caller that is not i
Other(i) == CHOOSE j \in Callers : j # i

\* C18: nothing serialises two callers of resetClock: a wait reads the
\* head of the shared line whichever command it echoes; the echo of the
\* other caller's command is discarded, never taken for a success, and is
\* then gone from the line; a wait succeeds only on the echo of its own
\* command. So a caller can return False although the device echoed its
\* command, the other caller having read that echo.
C18_NoReplyRouting ==
    [][ \A i \in Callers :
          (pc[i] = "_waitFor" /\ nreads'[i] = nreads[i] + 1) =>
              /\ rx' = PortRest
              /\ last_read'[i] = PortRead
              /\ (PortRead = ResetClockCmd(arg[Other(i)].ack)) =>
                     /\ ret'[i] # << "bool", TRUE >>
                     /\ (pc'[i] = "_waitFor" => count'[i] = count[i] + 1)
              /\ (ret'[i] = << "bool", TRUE >>) =>
                     PortRead = ResetClockCmd(arg[i].ack)
      ]_vars

\* C18 witness: caller 1, still waiting, has read and discarded the echo of
\* caller 2's command; caller 2 has returned False on an empty read
C18_Witness ==
    /\ pc[1] = "_waitFor"
    /\ count[1] = 1
    /\ last_read[1] = ResetClockCmd(arg[2].ack)
    /\ arg[1].ack # arg[2].ack
    /\ pc[2] = "idle"
    /\ ret[2] = << "bool", FALSE >>
    /\ last_read[2] = << >>

====
